---- MODULE Spec2Model ----
(***************************************************************************)
(* Amazon seller scraper: the run of main.js over the (ASIN x marketplace) *)
(* matrix, the offer discovery of extractAllSellers, the first-party       *)
(* filter, the profile visit of extractSellerInfo and the cross-           *)
(* marketplace provenance kept in sellersSeen.                             *)
(*                                                                         *)
(* JavaScript strings that the code inspects (names, titles, URLs) are     *)
(* sequences of one-character strings, so that toLowerCase, trim and       *)
(* includes are computed and not assumed.  Seller identifiers are opaque   *)
(* and are TLA+ strings; every use of a seller id in the code is guarded   *)
(* by a truthiness test, so null and "" are both written NoId.             *)
(***************************************************************************)
EXTENDS Integers, Sequences, FiniteSets, TLC

(***************************************************************************)
(* Bounds of the model.                                                    *)
(***************************************************************************)
NumMarketplaces == 2
NumAsins == 1
MaxLinks == 3
MaxFailures == 1
MaxPad == 2
MaxNameLen == 3
MaxDetailLines == 3
MaxOutsideLines == 2
MaxLabelLines == 2

(***************************************************************************)
(* Strings.                                                                *)
(***************************************************************************)
UpperChars == <<"A","B","C","D","E","F","G","H","I","J","K","L","M",
                "N","O","P","Q","R","S","T","U","V","W","X","Y","Z">>
LowerChars == <<"a","b","c","d","e","f","g","h","i","j","k","l","m",
                "n","o","p","q","r","s","t","u","v","w","x","y","z">>

ToLowerChar(c) ==
  IF \E i \in 1..26 : UpperChars[i] = c
  THEN LowerChars[CHOOSE i \in 1..26 : UpperChars[i] = c]
  ELSE c

ToLowerCase(s) == [i \in 1..Len(s) |-> ToLowerChar(s[i])]

IsSpace(c) == c \in {" ", "\t", "\n"}

RECURSIVE TrimStart(_)
TrimStart(s) ==
  IF s # <<>> /\ IsSpace(Head(s)) THEN TrimStart(Tail(s)) ELSE s

RECURSIVE TrimEnd(_)
TrimEnd(s) ==
  IF s # <<>> /\ IsSpace(s[Len(s)]) THEN TrimEnd(SubSeq(s, 1, Len(s) - 1)) ELSE s

Trim(s) == TrimEnd(TrimStart(s))

Includes(s, sub) ==
  \E i \in 0..(Len(s) - Len(sub)) : SubSeq(s, i + 1, i + Len(sub)) = sub

(***************************************************************************)
(* constants.js                                                            *)
(***************************************************************************)
AMAZON_SELLER_NAMES ==
  <<
    <<"a","m","a","z","o","n">>,
    <<"a","m","a","z","o","n",".","c","o",".","u","k">>,
    <<"a","m","a","z","o","n",".","d","e">>,
    <<"a","m","a","z","o","n",".","f","r">>,
    <<"a","m","a","z","o","n",".","i","t">>,
    <<"a","m","a","z","o","n",".","e","s">>,
    <<"a","m","a","z","o","n",".","n","l">>,
    <<"a","m","a","z","o","n",".","p","l">>,
    <<"a","m","a","z","o","n",".","s","e">>,
    <<"a","m","a","z","o","n",".","c","o","m",".","b","e">>,
    <<"a","m","a","z","o","n",".","i","e">>,
    <<"a","m","a","z","o","n",".","a","e">>,
    <<"a","m","a","z","o","n",".","c","o",".","j","p">>,
    <<"a","m","a","z","o","n",".","s","a">>,
    <<"a","m","a","z","o","n",".","c","o","m",".","t","r">>,
    <<"a","m","a","z","o","n"," ","u","k">>,
    <<"a","m","a","z","o","n"," ","e","u"," ","s",".","a",".","r",".","l",".">>,
    <<"a","m","a","z","o","n"," ","e","u">>,
    <<"a","m","a","z","o","n"," ","e","u","r","o","p","e">>
  >>

MarketplaceTable ==
  << [code |-> "UK", domain |-> "amazon.co.uk"],
     [code |-> "IE", domain |-> "amazon.ie"],
     [code |-> "DE", domain |-> "amazon.de"],
     [code |-> "NL", domain |-> "amazon.nl"],
     [code |-> "SE", domain |-> "amazon.se"],
     [code |-> "BE", domain |-> "amazon.com.be"],
     [code |-> "PL", domain |-> "amazon.pl"],
     [code |-> "ES", domain |-> "amazon.es"],
     [code |-> "IT", domain |-> "amazon.it"],
     [code |-> "AE", domain |-> "amazon.ae"],
     [code |-> "JP", domain |-> "amazon.co.jp"],
     [code |-> "SA", domain |-> "amazon.sa"],
     [code |-> "TR", domain |-> "amazon.com.tr"] >>

\* The model runs over the first NumMarketplaces rows of the table.
MARKETPLACES == SubSeq(MarketplaceTable, 1, NumMarketplaces)

(***************************************************************************)
(* JavaScript values (arguments, fields of the profile object and of the   *)
(* emitted record): null, a string, a number or a boolean; a key may be    *)
(* missing from an object (undefined).                                     *)
(***************************************************************************)
Null == [null |-> TRUE]
Undefined == [undefined |-> TRUE]
S(chars) == [str |-> chars]
N(n) == [num |-> n]
B(b) == [bool |-> b]

Truthy(v) ==
  \/ "str" \in DOMAIN v /\ v.str # <<>>
  \/ "num" \in DOMAIN v /\ v.num # 0
  \/ "bool" \in DOMAIN v /\ v.bool

\* obj.key
Get(obj, key) == IF key \in DOMAIN obj THEN obj[key] ELSE Undefined

\* obj.key = v
Put(obj, key, v) == [k \in DOMAIN obj \cup {key} |-> IF k = key THEN v ELSE obj[k]]

\* a || b
OrElse(a, b) == IF Truthy(a) THEN a ELSE b

(***************************************************************************)
(* isAmazonSeller                                                          *)
(***************************************************************************)
\* the comparison without toLowerCase()
isAmazonSellerCaseSensitive(sellerName) ==
  IF ~Truthy(sellerName) THEN FALSE
  ELSE LET normalized == Trim(sellerName.str)
       IN  \E k \in 1..Len(AMAZON_SELLER_NAMES) :
             \/ Includes(normalized, AMAZON_SELLER_NAMES[k])
             \/ Includes(AMAZON_SELLER_NAMES[k], normalized)

\* sellerName is a JavaScript value: a string, null or undefined
isAmazonSeller(sellerName) ==
  IF ~Truthy(sellerName) THEN FALSE
  ELSE LET normalized == Trim(ToLowerCase(sellerName.str))
       IN  \E k \in 1..Len(AMAZON_SELLER_NAMES) :
             \/ Includes(normalized, AMAZON_SELLER_NAMES[k])
             \/ Includes(AMAZON_SELLER_NAMES[k], normalized)

(***************************************************************************)
(* The offer page as the code sees it.  An anchor has its text content, a  *)
(* resolved href and the "sold by" context of strategy 3.  An href is kept *)
(* by the parts the code looks at: whether new URL(href) parses, the route *)
(* ("/gp/aag/main", "/sp", another one, or no href at all), the seller and *)
(* sellerID query parameters, a /seller/<id> path segment, and whether it  *)
(* contains '#'.                                                           *)
(***************************************************************************)
NoId == ""

NoHref == [valid |-> FALSE, route |-> "none", seller |-> NoId,
           sellerID |-> NoId, pathSeller |-> NoId, hash |-> FALSE]

Href(route, seller, sellerID, pathSeller) ==
  [valid |-> TRUE, route |-> route, seller |-> seller,
   sellerID |-> sellerID, pathSeller |-> pathSeller, hash |-> FALSE]

\* extractSellerId(href) of the in-page extraction
extractSellerId(href) ==
  IF href = NoHref THEN NoId
  ELSE IF href.valid
       THEN (IF href.seller # NoId THEN href.seller ELSE href.sellerID)
       ELSE href.seller

\* a[href*="/gp/aag/main"]
MatchesAag(a) == a.href.route = "aag"

\* a[href*="seller="]
MatchesSellerParam(a) == a.href # NoHref /\ a.href.seller # NoId

\* the guard of strategy 3
MatchesSoldBy(a) == a.soldBy /\ a.href # NoHref /\ ~a.href.hash

\* a.href.match(/seller[=\/]([A-Z0-9]+)/i): the path precedes the query
MatchSellerPath(href) ==
  IF href.pathSeller # NoId THEN href.pathSeller ELSE href.seller

\* the callback without the test of the name
AcceptCandidateNoName(acc, a, strategy) ==
  LET sellerId == extractSellerId(a.href)
      name == Trim(a.text)
  IN  IF sellerId # NoId /\ sellerId \notin acc.seenIds
      THEN [found |-> Append(acc.found,
                [name |-> name, sellerId |-> sellerId,
                 href |-> a.href, strategy |-> strategy]),
            seenIds |-> acc.seenIds \cup {sellerId}]
      ELSE acc

\* the callback without the seenIds test
AcceptCandidateNoSeen(acc, a, strategy) ==
  LET sellerId == extractSellerId(a.href)
      name == Trim(a.text)
  IN  IF sellerId # NoId /\ name # <<>>
      THEN [found |-> Append(acc.found,
                [name |-> name, sellerId |-> sellerId,
                 href |-> a.href, strategy |-> strategy]),
            seenIds |-> acc.seenIds \cup {sellerId}]
      ELSE acc

\* One forEach callback of strategies 1 and 2.
AcceptCandidate(acc, a, strategy) ==
  LET sellerId == extractSellerId(a.href)
      name == Trim(a.text)
  IN  IF sellerId # NoId /\ name # <<>> /\ sellerId \notin acc.seenIds
      THEN [found |-> Append(acc.found,
                [name |-> name, sellerId |-> sellerId,
                 href |-> a.href, strategy |-> strategy]),
            seenIds |-> acc.seenIds \cup {sellerId}]
      ELSE acc

\* One forEach callback of strategy 3.
AcceptSoldBy(acc, a) ==
  IF ~MatchesSoldBy(a) THEN acc
  ELSE
    LET sellerId == extractSellerId(a.href)
        name == Trim(a.text)
    IN  IF sellerId # NoId /\ name # <<>> /\ sellerId \notin acc.seenIds
        THEN AcceptCandidate(acc, a, "soldBy")
        ELSE IF name # <<>> /\ sellerId = NoId /\ a.href.route = "sp"
        THEN LET id == MatchSellerPath(a.href)
             IN  IF id # NoId /\ id \notin acc.seenIds
                 THEN [found |-> Append(acc.found,
                          [name |-> name, sellerId |-> id,
                           href |-> a.href, strategy |-> "soldByPath"]),
                       seenIds |-> acc.seenIds \cup {id}]
                 ELSE acc
        ELSE acc

RECURSIVE ForEachCandidate(_, _, _)
ForEachCandidate(acc, anchors, strategy) ==
  IF anchors = <<>> THEN acc
  ELSE ForEachCandidate(AcceptCandidate(acc, Head(anchors), strategy),
                        Tail(anchors), strategy)

RECURSIVE ForEachSoldBy(_, _)
ForEachSoldBy(acc, anchors) ==
  IF anchors = <<>> THEN acc
  ELSE ForEachSoldBy(AcceptSoldBy(acc, Head(anchors)), Tail(anchors))

\* The callback of the second page.evaluate: the three strategies in
\* priority order over the anchors in DOM order, into one found list.
EvaluateStrategies(anchors) ==
  LET s0 == [found |-> <<>>, seenIds |-> {}]
      s1 == ForEachCandidate(s0, SelectSeq(anchors, MatchesAag), "aag")
      s2 == ForEachCandidate(s1, SelectSeq(anchors, MatchesSellerParam), "sellerParam")
      s3 == ForEachSoldBy(s2, anchors)
  IN  s3.found

\* [...new Map(sellers.map(s => [s.sellerId, s])).values()]: a key keeps
\* the position of its first entry and the value of its last one.
UniqueBySellerId(sellers) ==
  LET firsts == SelectSeq([i \in 1..Len(sellers) |-> i],
                  LAMBDA i : \A j \in 1..(i - 1) : sellers[j].sellerId # sellers[i].sellerId)
      LastOf(i) == CHOOSE j \in 1..Len(sellers) :
                     /\ sellers[j].sellerId = sellers[i].sellerId
                     /\ \A k \in (j + 1)..Len(sellers) : sellers[k].sellerId # sellers[i].sellerId
  IN  [n \in 1..Len(firsts) |-> sellers[LastOf(firsts[n])]]

\* The literals the code compares page text with.
LblBusinessName == <<"b","u","s","i","n","e","s","s"," ","n","a","m","e">>
LblBusinessType == <<"b","u","s","i","n","e","s","s"," ","t","y","p","e">>
LblTradeRegisterNumber == <<"t","r","a","d","e"," ","r","e","g","i","s","t","e","r"," ","n","u","m","b","e","r">>
LblVatNumber == <<"v","a","t"," ","n","u","m","b","e","r">>
LblPhoneNumber == <<"p","h","o","n","e"," ","n","u","m","b","e","r">>
LblEmail == <<"e","m","a","i","l">>
LblBusinessAddress == <<"b","u","s","i","n","e","s","s"," ","a","d","d","r","e","s","s">>
LblCustomerServicesAddress == <<"c","u","s","t","o","m","e","r"," ","s","e","r","v","i","c","e","s"," ","a","d","d","r","e","s","s">>
TxtThisSeller == <<"T","h","i","s"," ","s","e","l","l","e","r">>
TxtCustomerServicePhone == <<"c","u","s","t","o","m","e","r"," ","s","e","r","v","i","c","e"," ","p","h","o","n","e">>
TxtPageNotFound == <<"P","a","g","e"," ","N","o","t"," ","F","o","u","n","d">>
Txt404 == <<"4","0","4">>
TxtSorry == <<"S","o","r","r","y">>
TxtErrors == <<"/","e","r","r","o","r","s","/">>

(***************************************************************************)
(* extractSellerInfo: the callback of page.evaluate over the profile       *)
(* document.  The document is kept as the h1 text, the three rating        *)
(* statistics as the rating patterns and parseFloat/parseInt yield them    *)
(* (rating in tenths), whether the "Detailed Seller Information" h3 and    *)
(* its container exist, the lines of the container's innerText (detail)    *)
(* and the lines of the body text around it (outside).                     *)
(***************************************************************************)
IndexOfChar(s, c) ==
  IF \E i \in 1..Len(s) : s[i] = c
  THEN CHOOSE i \in 1..Len(s) : s[i] = c /\ \A j \in 1..(i - 1) : s[j] # c
  ELSE 0

RECURSIVE Join(_, _)
Join(parts, sep) ==
  IF parts = <<>> THEN <<>>
  ELSE IF Len(parts) = 1 THEN parts[1]
  ELSE parts[1] \o sep \o Join(Tail(parts), sep)

\* allText.split('\n').map(l => l.trim()).filter(Boolean)
DetailLines(detail) ==
  SelectSeq([i \in 1..Len(detail) |-> Trim(detail[i])], LAMBDA l : l # <<>>)

\* the inner loop stopping at 'This seller' only
RECURSIVE AddrLinesPastColon(_, _)
AddrLinesPastColon(lines, j) ==
  IF j > Len(lines) THEN <<>>
  ELSE IF Includes(lines[j], TxtThisSeller) THEN <<>>
  ELSE <<lines[j]>> \o AddrLinesPastColon(lines, j + 1)

\* the inner for-loop over j: the lines after i up to the first one that
\* contains ':' or 'This seller'
RECURSIVE AddrLines(_, _)
AddrLines(lines, j) ==
  IF j > Len(lines) THEN <<>>
  ELSE IF Includes(lines[j], <<":">>) \/ Includes(lines[j], TxtThisSeller) THEN <<>>
  ELSE <<lines[j]>> \o AddrLines(lines, j + 1)

LastIndexOfChar(s, c) ==
  IF \E i \in 1..Len(s) : s[i] = c
  THEN CHOOSE i \in 1..Len(s) : s[i] = c /\ \A j \in (i + 1)..Len(s) : s[j] # c
  ELSE 0

\* the iteration with the line split at its last colon
ParseLineLastColon(result, lines, i) ==
  LET line == lines[i]
      c == LastIndexOfChar(line, ":")
  IN  IF c = 0 THEN result
      ELSE
        LET key == Trim(SubSeq(line, 1, c - 1))
            value == Trim(SubSeq(line, c + 1, Len(line)))
            keyLower == ToLowerCase(key)
        IN  IF value # <<>>
            THEN IF keyLower = LblBusinessName THEN Put(result, "businessName", S(value))
                 ELSE IF keyLower = LblBusinessType THEN Put(result, "businessType", S(value))
                 ELSE IF keyLower = LblTradeRegisterNumber THEN Put(result, "tradeRegisterNumber", S(value))
                 ELSE IF keyLower = LblVatNumber THEN Put(result, "vatNumber", S(value))
                 ELSE IF keyLower = LblPhoneNumber THEN Put(result, "phoneNumber", S(value))
                 ELSE IF keyLower = LblEmail THEN Put(result, "email", S(value))
                 ELSE result
            ELSE IF keyLower = LblBusinessAddress
                 THEN Put(result, "businessAddress", S(Join(AddrLines(lines, i + 1), <<",", " ">>)))
                 ELSE IF keyLower = LblCustomerServicesAddress
                 THEN Put(result, "customerServiceAddress", S(Join(AddrLines(lines, i + 1), <<",", " ">>)))
                 ELSE result

\* one iteration of the for-loop over the lines
ParseLine(result, lines, i) ==
  LET line == lines[i]
      c == IndexOfChar(line, ":")
  IN  IF c = 0 THEN result
      ELSE
        LET key == Trim(SubSeq(line, 1, c - 1))
            value == Trim(SubSeq(line, c + 1, Len(line)))
            keyLower == ToLowerCase(key)
        IN  IF value # <<>>
            THEN IF keyLower = LblBusinessName THEN Put(result, "businessName", S(value))
                 ELSE IF keyLower = LblBusinessType THEN Put(result, "businessType", S(value))
                 ELSE IF keyLower = LblTradeRegisterNumber THEN Put(result, "tradeRegisterNumber", S(value))
                 ELSE IF keyLower = LblVatNumber THEN Put(result, "vatNumber", S(value))
                 ELSE IF keyLower = LblPhoneNumber THEN Put(result, "phoneNumber", S(value))
                 ELSE IF keyLower = LblEmail THEN Put(result, "email", S(value))
                 ELSE result
            ELSE IF keyLower = LblBusinessAddress
                 THEN Put(result, "businessAddress", S(Join(AddrLines(lines, i + 1), <<",", " ">>)))
                 ELSE IF keyLower = LblCustomerServicesAddress
                 THEN Put(result, "customerServiceAddress", S(Join(AddrLines(lines, i + 1), <<",", " ">>)))
                 ELSE result

RECURSIVE ParseLines(_, _, _)
ParseLines(result, lines, i) ==
  IF i > Len(lines) THEN result
  ELSE ParseLines(ParseLine(result, lines, i), lines, i + 1)

\* text.match(/Customer Service Phone[:\s]+([^\n]+)/i): the capture group,
\* or <<>> when there is no match.  The leftmost occurrence of the label
\* that can be completed wins; [:\s]+ is greedy and gives characters back
\* until the capture has at least one character that is not a newline.
IsSepChar(c) == c = ":" \/ IsSpace(c)

RECURSIVE SepRun(_, _)
SepRun(text, from) ==
  IF from <= Len(text) /\ IsSepChar(text[from]) THEN 1 + SepRun(text, from + 1) ELSE 0

RECURSIVE UpToNewline(_, _)
UpToNewline(text, from) ==
  IF from <= Len(text) /\ text[from] # "\n"
  THEN <<text[from]>> \o UpToNewline(text, from + 1)
  ELSE <<>>

CaptureAt(text, start) ==
  LET after == start + Len(TxtCustomerServicePhone)
      run == SepRun(text, after)
      ks == {k \in 1..run : UpToNewline(text, after + k) # <<>>}
  IN  IF ks = {} THEN <<>>
      ELSE UpToNewline(text, after + (CHOOSE k \in ks : \A m \in ks : m <= k))

CsPhoneMatch(text) ==
  LET n == Len(TxtCustomerServicePhone)
      lower == ToLowerCase(text)
      starts == {i \in 1..(Len(text) - n + 1) :
                   /\ SubSeq(lower, i, i + n - 1) = TxtCustomerServicePhone
                   /\ CaptureAt(text, i) # <<>>}
  IN  IF starts = {} THEN <<>>
      ELSE CaptureAt(text, CHOOSE i \in starts : \A j \in starts : i <= j)

BodyText(profile) == Join(profile.outside \o profile.detail, <<"\n">>)

\* parseInt(s.replace(/,/g, ''), 10) of a capture group made of digits and
\* commas
Digits == <<"0","1","2","3","4","5","6","7","8","9">>

DigitValue(c) == (CHOOSE i \in 1..10 : Digits[i] = c) - 1

RemoveCommas(s) == SelectSeq(s, LAMBDA c : c # ",")

RECURSIVE ParseDigits(_, _)
ParseDigits(s, acc) ==
  IF s = <<>> THEN acc
  ELSE ParseDigits(Tail(s), acc * 10 + DigitValue(Head(s)))

parseInt(s) == ParseDigits(s, 0)

\* match ? parseInt(match[1]...) : null, the capture group of percentMatch
\* or countMatch being Null when the pattern did not match
ParseMatch(match) ==
  IF match = Null THEN Null ELSE N(parseInt(RemoveCommas(match.str)))

\* the callback without the fallback of the page that has no heading
EvaluateProfileNoFallback(profile) ==
  LET r0 == [sellerDisplayName |->
                IF profile.h1 = Null THEN Null ELSE S(Trim(profile.h1.str)),
             rating |-> profile.rating,
             positivePercent |-> ParseMatch(profile.percentMatch),
             ratingCount |-> ParseMatch(profile.countMatch)]
      cs == CsPhoneMatch(BodyText(profile))
  IN  IF ~profile.heading
      THEN Put(r0, "hasDetailedInfo", B(FALSE))
      ELSE LET r1 == Put(r0, "hasDetailedInfo", B(TRUE))
           IN  IF ~profile.container THEN r1
               ELSE LET lines == DetailLines(profile.detail)
                        r2 == ParseLines(r1, lines, 1)
                    IN  IF cs # <<>>
                        THEN LET r3 == Put(r2, "customerServicePhone", S(Trim(cs)))
                             IN  IF ~Truthy(Get(r3, "phoneNumber"))
                                 THEN Put(r3, "phoneNumber", S(Trim(cs)))
                                 ELSE r3
                        ELSE r2

\* the callback with a fallback that always assigns phoneNumber
EvaluateProfileFallbackWins(profile) ==
  LET r0 == [sellerDisplayName |->
                IF profile.h1 = Null THEN Null ELSE S(Trim(profile.h1.str)),
             rating |-> profile.rating,
             positivePercent |-> ParseMatch(profile.percentMatch),
             ratingCount |-> ParseMatch(profile.countMatch)]
      cs == CsPhoneMatch(BodyText(profile))
  IN  IF ~profile.heading
      THEN LET r1 == Put(r0, "hasDetailedInfo", B(FALSE))
           IN  IF cs # <<>>
               THEN Put(Put(r1, "phoneNumber", S(Trim(cs))), "customerServicePhone", S(Trim(cs)))
               ELSE r1
      ELSE LET r1 == Put(r0, "hasDetailedInfo", B(TRUE))
           IN  IF ~profile.container THEN r1
               ELSE LET lines == DetailLines(profile.detail)
                        r2 == ParseLines(r1, lines, 1)
                    IN  IF cs # <<>>
                        THEN Put(Put(r2, "customerServicePhone", S(Trim(cs))),
                                 "phoneNumber", S(Trim(cs)))
                        ELSE r2

EvaluateProfile(profile) ==
  LET r0 == [sellerDisplayName |->
                IF profile.h1 = Null THEN Null ELSE S(Trim(profile.h1.str)),
             rating |-> profile.rating,
             positivePercent |-> ParseMatch(profile.percentMatch),
             ratingCount |-> ParseMatch(profile.countMatch)]
      cs == CsPhoneMatch(BodyText(profile))
  IN  IF ~profile.heading
      THEN LET r1 == Put(r0, "hasDetailedInfo", B(FALSE))
           IN  IF cs # <<>>
               THEN Put(Put(r1, "phoneNumber", S(Trim(cs))), "customerServicePhone", S(Trim(cs)))
               ELSE r1
      ELSE LET r1 == Put(r0, "hasDetailedInfo", B(TRUE))
           IN  IF ~profile.container THEN r1
               ELSE LET lines == DetailLines(profile.detail)
                        r2 == ParseLines(r1, lines, 1)
                    IN  IF cs # <<>>
                        THEN LET r3 == Put(r2, "customerServicePhone", S(Trim(cs)))
                             IN  IF ~Truthy(Get(r3, "phoneNumber"))
                                 THEN Put(r3, "phoneNumber", S(Trim(cs)))
                                 ELSE r3
                        ELSE r2

\* The object pushed to results in scrapeAsinOnMarketplace (scrapedAt, a
\* wall-clock timestamp, is left out).
BuildRecord(asin, marketplace, seller, sellerInfo) ==
  [asin |-> asin,
   marketplace |-> marketplace.code,
   marketplaceDomain |-> marketplace.domain,
   sellerName |-> seller.name,
   sellerId |-> seller.sellerId,
   sellerDisplayName |-> OrElse(Get(sellerInfo, "sellerDisplayName"), S(seller.name)),
   businessName |-> OrElse(Get(sellerInfo, "businessName"), Null),
   businessType |-> OrElse(Get(sellerInfo, "businessType"), Null),
   phoneNumber |-> OrElse(Get(sellerInfo, "phoneNumber"), Null),
   customerServicePhone |-> OrElse(Get(sellerInfo, "customerServicePhone"), Null),
   email |-> OrElse(Get(sellerInfo, "email"), Null),
   vatNumber |-> OrElse(Get(sellerInfo, "vatNumber"), Null),
   tradeRegisterNumber |-> OrElse(Get(sellerInfo, "tradeRegisterNumber"), Null),
   businessAddress |-> OrElse(Get(sellerInfo, "businessAddress"), Null),
   customerServiceAddress |-> OrElse(Get(sellerInfo, "customerServiceAddress"), Null),
   rating |-> OrElse(Get(sellerInfo, "rating"), Null),
   positivePercent |-> OrElse(Get(sellerInfo, "positivePercent"), Null),
   ratingCount |-> OrElse(Get(sellerInfo, "ratingCount"), Null),
   hasDetailedInfo |-> OrElse(Get(sellerInfo, "hasDetailedInfo"), B(FALSE))]

(***************************************************************************)
(* The state of a run of main.js.                                          *)
(***************************************************************************)
VARIABLES
  input,           \* Actor.getInput(): maxAsins, marketplaces, skipAmazonSellers
  pc,              \* the position of the (single) thread of control
  asinIdx,         \* position of the outer loop in asinsToProcess
  mpIdx,           \* position of the inner loop in marketplacesToScrape
  page,            \* the document the browser page shows
  foundSelector,   \* extractAllSellers: the container selector that was found
  allSellers,      \* what extractAllSellers returned
  sellersToVisit,  \* scrapeAsinOnMarketplace: the sellers left by the filter
  results,         \* scrapeAsinOnMarketplace: the records built so far
  emitIdx,         \* main.js: position of the loop over the returned records
  allResults,      \* main.js: the in-memory result sequence
  sellersSeen,     \* main.js: Map sellerId -> first marketplace code
  sink,            \* the dataset Actor.pushData appends to
  failures,        \* number of page/sink operations that have failed so far
  unitOps,         \* the page and timer operations of the current unit, in order
  units,           \* the (asin, marketplace) units begun so far, in order
  delays           \* number of inter-marketplace delays taken so far

vars == <<input, pc, asinIdx, mpIdx, page, foundSelector, allSellers,
          sellersToVisit, results, emitIdx, allResults, sellersSeen, sink,
          failures, unitOps, units, delays>>

Range(f) == {f[i] : i \in DOMAIN f}

Min(a, b) == IF a <= b THEN a ELSE b

\* The product identifiers of the input list.
ProductIds == <<"P1", "P2", "P3", "P4">>

asins == SubSeq(ProductIds, 1, NumAsins)

\* const asinsToProcess = maxAsins > 0 ? asins.slice(0, maxAsins) : asins
asinsToProcess ==
  IF input.maxAsins > 0 THEN SubSeq(asins, 1, Min(input.maxAsins, Len(asins))) ELSE asins

\* marketplacesToScrape built by mapping the caller's list over the table
marketplacesInCallerOrder ==
  IF Len(input.marketplaces) > 0
  THEN [i \in 1..Len(input.marketplaces) |->
          CHOOSE m \in Range(MARKETPLACES) : m.code = input.marketplaces[i]]
  ELSE MARKETPLACES

\* const marketplacesToScrape = selectedMarketplaces.length > 0
\*     ? MARKETPLACES.filter(m => selectedMarketplaces.includes(m.code)) : MARKETPLACES
marketplacesToScrape ==
  IF Len(input.marketplaces) > 0
  THEN SelectSeq(MARKETPLACES, LAMBDA m : m.code \in Range(input.marketplaces))
  ELSE MARKETPLACES

asin == asinsToProcess[asinIdx]
marketplace == marketplacesToScrape[mpIdx]

\* const offerSelectors = [...]
offerSelectors ==
  << "#aod-offer-list #aod-offer", "#aod-offer", "#all-offers-display",
     "#olpOfferList", ".olpOffer", "#ppd" >>

Op(op, arg, ok) == [op |-> op, arg |-> arg, ok |-> ok]

(***************************************************************************)
(* Documents.                                                              *)
(***************************************************************************)
NoProfile == [h1 |-> Null, rating |-> Null, percentMatch |-> Null,
              countMatch |-> Null, heading |-> FALSE, container |-> FALSE,
              outside |-> <<>>, detail |-> <<>>]

BlankDoc == [title |-> <<>>, url |-> <<"a","b","o","u","t",":","b","l","a","n","k">>,
             captcha |-> FALSE, containers |-> {}, anchors |-> <<>>,
             profile |-> NoProfile]

OfferDoc(title, url, captcha, containers, anchors) ==
  [title |-> title, url |-> url, captcha |-> captcha, containers |-> containers,
   anchors |-> anchors, profile |-> NoProfile]

ProfileDoc(profile) ==
  [title |-> <<"S","e","l","l","e","r">>, url |-> <<"/","s","p">>,
   captcha |-> FALSE, containers |-> {}, anchors |-> <<>>, profile |-> profile]

(***************************************************************************)
(* The documents the runs are checked over.                                *)
(***************************************************************************)
Anchor(text, href, soldBy) == [text |-> text, href |-> href, soldBy |-> soldBy]

AcmeAag == Anchor(<<" ","A","c","m","e"," ">>, Href("aag", "S1", NoId, NoId), FALSE)
AcmeSp == Anchor(<<"A","c","m","e","L","t","d">>, Href("sp", "S1", NoId, NoId), TRUE)
BoltPath == Anchor(<<"B","o","l","t">>, Href("sp", NoId, NoId, "S2"), TRUE)
BoltAag == Anchor(<<"B","o","l","t","G","m","b","H">>, Href("aag", NoId, "S2", NoId), FALSE)
ImageAag == Anchor(<<" ">>, Href("aag", "S3", NoId, NoId), FALSE)
AmazonAag == Anchor(<<"A","m","a","z","o","n","d","e">>, Href("aag", "S3", NoId, NoId), FALSE)
HelpLink == Anchor(<<"H","e","l","p">>, Href("other", NoId, NoId, NoId), TRUE)
BareAnchor == Anchor(<<"A","c","m","e">>, NoHref, TRUE)

Anchors == {AcmeAag, AcmeSp, BoltPath, BoltAag, ImageAag, AmazonAag, HelpLink, BareAnchor}

AnchorSeqs == UNION {[1..n -> Anchors] : n \in 0..MaxLinks}

TitleOk == <<"W","i","d","g","e","t">>
UrlOk == <<"/","d","p","/","P","1">>

DocNotFound == OfferDoc(TxtPageNotFound, UrlOk, FALSE, {"#ppd"}, <<AcmeAag>>)
DocCaptcha == OfferDoc(TitleOk, UrlOk, TRUE, {"#ppd"}, <<AcmeAag>>)
DocTwo == OfferDoc(TitleOk, UrlOk, FALSE, {"#ppd"}, <<AcmeAag, AmazonAag>>)
DocNoSeller == OfferDoc(TitleOk, UrlOk, FALSE, {}, <<HelpLink>>)

NegativeDocs ==
  { DocNotFound,
    DocCaptcha,
    OfferDoc(<<"E","r","r","o","r"," ","4","0","4">>, UrlOk, FALSE, {}, <<AcmeAag>>),
    OfferDoc(<<"S","o","r","r","y","!">>, UrlOk, FALSE, {}, <<AcmeAag>>),
    OfferDoc(TitleOk, <<"/","e","r","r","o","r","s","/","v">>, FALSE, {}, <<AcmeAag>>) }

\* the offer pages of a whole run
RunOfferDocs == {DocNotFound, DocCaptcha, DocTwo, DocNoSeller}

\* the offer pages of a single discovery
DiscoveryDocs ==
  NegativeDocs \cup
  { OfferDoc(TitleOk, UrlOk, FALSE, c, a) : c \in {{}, {"#olpOfferList"}}, a \in AnchorSeqs }

ProfileFull ==
  [h1 |-> S(<<" ","A","c","m","e"," ","T","r","a","d","i","n","g"," ">>), rating |-> N(45), percentMatch |-> S(<<"9","8">>),
   countMatch |-> S(<<"1",",","2","0","4">>), heading |-> TRUE, container |-> TRUE,
   outside |-> <<<<"C","u","s","t","o","m","e","r"," ","S","e","r","v","i","c","e"," ","P","h","o","n","e",":"," ","5","5","5">>>>,
   detail |-> <<<<"B","u","s","i","n","e","s","s"," ","N","a","m","e",":"," ","A","c","m","e"," ","L","t","d">>, <<"P","h","o","n","e"," ","n","u","m","b","e","r",":"," ","1","2","3">>>>]

RunProfileDocs == {ProfileDoc(ProfileFull)}

\* Seller names as an offer page shows them: every entry of
\* AMAZON_SELLER_NAMES in lower case, upper case and with a capital initial,
\* between runs of up to MaxPad whitespace characters, and every string of
\* 1..MaxNameLen characters over NameAlphabet.
ToUpperChar(c) ==
  IF \E i \in 1..26 : LowerChars[i] = c
  THEN UpperChars[CHOOSE i \in 1..26 : LowerChars[i] = c]
  ELSE c

InCase(c, s) ==
  IF c = "upper" THEN [i \in 1..Len(s) |-> ToUpperChar(s[i])]
  ELSE IF c = "initial" THEN [i \in 1..Len(s) |-> IF i = 1 THEN ToUpperChar(s[i]) ELSE s[i]]
  ELSE s

WhiteSpace == <<" ", "\t", " ", "\n">>

WsRun(n) == SubSeq(WhiteSpace, 1, n)

ListedVariants ==
  { WsRun(l) \o InCase(c, AMAZON_SELLER_NAMES[k]) \o WsRun(r) :
      l \in 0..MaxPad, r \in 0..MaxPad, c \in {"lower", "upper", "initial"},
      k \in 1..Len(AMAZON_SELLER_NAMES) }

NameAlphabet == {"a", "Q", "x", ".", " "}

ShortNames == UNION {[1..n -> NameAlphabet] : n \in 1..MaxNameLen}

NameAnchor(text) == Anchor(text, Href("aag", "S1", NoId, NoId), FALSE)

\* the offer pages of the first-party filter: one seller link with each of
\* the names, and the page with a third-party and a first-party seller
IdentityDocs ==
  { OfferDoc(TitleOk, UrlOk, FALSE, {"#ppd"}, <<NameAnchor(t)>>) :
      t \in ListedVariants \cup ShortNames } \cup {DocTwo}

\* Profile pages.  The lines a page can show in the container of the
\* "Detailed Seller Information" heading (DetailPool) and in the body text
\* around it (OutsidePool).
LineBusinessAddress == <<"B","u","s","i","n","e","s","s"," ","A","d","d","r","e","s","s",":">>
LineCustomerServicesAddress == <<"C","u","s","t","o","m","e","r"," ","S","e","r","v","i","c","e","s"," ","A","d","d","r","e","s","s",":">>
LineStreet == <<"1","2"," ","H","i","g","h"," ","S","t">>
LineVat == <<"V","A","T"," ","N","u","m","b","e","r",":"," ","G","B","1">>
LineThisSeller == <<"T","h","i","s"," ","s","e","l","l","e","r"," ","i","s"," ","n","e","w">>
LinePhone == <<"P","h","o","n","e"," ","n","u","m","b","e","r",":"," ","1",":","2">>
LineEmailEmpty == <<"E","m","a","i","l",":">>
LineFax == <<"F","a","x",":"," ","7">>
LineAddressNoColon == <<"B","u","s","i","n","e","s","s"," ","A","d","d","r","e","s","s">>
LineName == <<"B","u","s","i","n","e","s","s"," ","N","a","m","e"," ",":"," ","A","c","m","e">>
LineCsPhone == <<"C","u","s","t","o","m","e","r"," ","S","e","r","v","i","c","e"," ","P","h","o","n","e",":"," ","+","4","4"," ","2","0">>
LineCsPhoneLoose == <<"c","u","s","t","o","m","e","r"," ","s","e","r","v","i","c","e"," ","p","h","o","n","e"," "," ","5","5","5"," ">>
LineCsLabelOnly == <<"C","u","s","t","o","m","e","r"," ","S","e","r","v","i","c","e"," ","P","h","o","n","e">>
LineStore == <<"A","c","m","e"," ","s","t","o","r","e">>

DetailPool ==
  {LineBusinessAddress, LineCustomerServicesAddress, LineStreet,
   LineThisSeller, LinePhone, LineAddressNoColon}

OutsidePool == {LineCsPhone, LineCsPhoneLoose, LineCsLabelOnly, LineStore, LineVat}

DetailSeqs == UNION {[1..n -> DetailPool] : n \in 0..MaxDetailLines}

OutsideSeqs == UNION {[1..n -> OutsidePool] : n \in 0..MaxOutsideLines}

\* the detail-block lines of the address example, without and with the
\* colon after the label
ExampleLines ==
  << <<"B","u","s","i","n","e","s","s"," ","A","d","d","r","e","s","s">>,
     <<"1","2"," ","H","i","g","h"," ","S","t","r","e","e","t">>,
     <<"L","o","n","d","o","n",","," ","E","C","1"," ","1","A","A">>,
     <<"U","n","i","t","e","d"," ","K","i","n","g","d","o","m">>,
     <<"V","A","T"," ","N","u","m","b","e","r",":"," ","G","B","1","2","3","4","5","6","7","8","9">> >>

ExampleLinesColon == <<LineBusinessAddress>> \o Tail(ExampleLines)

\* lines of the six labelled fields in several spellings
LineType == <<"B","u","s","i","n","e","s","s"," ","T","y","p","e",":"," ","L","t","d">>
LineTradeRegister == <<"t","r","a","d","e"," ","r","e","g","i","s","t","e","r"," ","n","u","m","b","e","r"," ",":","H","R","B"," ","1">>
LineEmail == <<"E","M","A","I","L",":"," ","a","@","b",".","c">>
LineNameTight == <<"b","u","s","i","n","e","s","s"," ","n","a","m","e",":","B","o","l","t">>
LinePhoneEmpty == <<"P","h","o","n","e"," ","n","u","m","b","e","r",":">>
LineVatOther == <<"V","A","T"," ","N","u","m","b","e","r"," ","x",":"," ","9">>

LabelPool ==
  {LineType, LineTradeRegister, LineEmail, LineNameTight, LinePhoneEmpty,
   LineVatOther, LineName, LineVat, LineFax, LineEmailEmpty, LinePhone}

LabelSeqs == UNION {[1..n -> LabelPool] : n \in 1..MaxLabelLines}

ProfileOf(heading, container, outside, detail) ==
  [h1 |-> S(<<"A","c","m","e">>), rating |-> Null, percentMatch |-> Null,
   countMatch |-> Null, heading |-> heading, container |-> container,
   outside |-> outside, detail |-> detail]

\* the capture groups of  (\d+)%\s*positive  and  \((\d[\d,]*)\s*ratings?\)
\* on pages that show "0% positive", "98% positive", "(0 ratings)",
\* "(1,204 ratings)" or no such text
PercentCaptures == {Null, S(<<"0">>), S(<<"9","8">>)}

CountCaptures == {Null, S(<<"0">>), S(<<"1",",","2","0","4">>)}

RatingDocs ==
  { ProfileDoc([ProfileOf(FALSE, FALSE, <<>>, <<>>) EXCEPT
                  !.percentMatch = p, !.countMatch = c]) :
      p \in PercentCaptures, c \in CountCaptures }

ProfileDocs ==
  { ProfileDoc(ProfileOf(TRUE, TRUE, o, d)) :
      o \in {<<>>, <<LineCsPhone>>}, d \in DetailSeqs } \cup
  { ProfileDoc(ProfileOf(TRUE, TRUE, <<>>, d)) : d \in {ExampleLines, ExampleLinesColon} } \cup
  { ProfileDoc(ProfileOf(TRUE, TRUE, <<>>, d)) : d \in LabelSeqs } \cup
  { ProfileDoc(ProfileOf(TRUE, FALSE, o, <<LinePhone>>)) : o \in {<<>>, <<LineCsPhone>>} } \cup
  { ProfileDoc(ProfileOf(FALSE, FALSE, o, <<>>)) : o \in OutsideSeqs } \cup
  { ProfileDoc(ProfileFull) } \cup RatingDocs

DocOne == OfferDoc(TitleOk, UrlOk, FALSE, {"#ppd"}, <<AcmeAag>>)

Codes == {MARKETPLACES[i].code : i \in 1..Len(MARKETPLACES)}

\* the caller's marketplace-code lists: none, one code, or two distinct
\* codes in either order
MarketplaceInputs ==
  {<<>>} \cup {<<a>> : a \in Codes} \cup
  {q \in Codes \X Codes : q[1] # q[2]}

Inputs ==
  [maxAsins : {0, 1}, marketplaces : MarketplaceInputs, skipAmazonSellers : BOOLEAN]

(***************************************************************************)
(* main.js and scrapeAsinOnMarketplace, one action per step of the         *)
(* script.  A page or sink operation that can reject does so at most       *)
(* MaxFailures times in a run.                                             *)
(***************************************************************************)
Init ==
  /\ input \in Inputs
  /\ pc = "loop"
  /\ asinIdx = 1
  /\ mpIdx = 1
  /\ page = BlankDoc
  /\ foundSelector = "null"
  /\ allSellers = <<>>
  /\ sellersToVisit = <<>>
  /\ results = <<>>
  /\ emitIdx = 1
  /\ allResults = <<>>
  /\ sellersSeen = <<>>
  /\ sink = <<>>
  /\ failures = 0
  /\ unitOps = <<>>
  /\ units = <<>>
  /\ delays = 0

\* for (const marketplace of marketplacesToScrape) { try { scrapeAsinOnMarketplace(...
\* up to the call of page.goto in extractAllSellers
BeginUnit ==
  /\ pc = "loop"
  /\ asinIdx <= Len(asinsToProcess)
  /\ mpIdx <= Len(marketplacesToScrape)
  /\ pc' = "goto"
  /\ units' = Append(units, [asin |-> asin, marketplace |-> marketplace.code])
  /\ UNCHANGED <<input, asinIdx, mpIdx, page, foundSelector, allSellers,
                 sellersToVisit, results, emitIdx, allResults, sellersSeen,
                 sink, failures, unitOps, delays>>

\* the inner loop is exhausted: next ASIN
NextAsin ==
  /\ pc = "loop"
  /\ asinIdx <= Len(asinsToProcess)
  /\ mpIdx > Len(marketplacesToScrape)
  /\ asinIdx' = asinIdx + 1
  /\ mpIdx' = 1
  /\ UNCHANGED <<input, pc, page, foundSelector, allSellers, sellersToVisit,
                 results, emitIdx, allResults, sellersSeen, sink, failures,
                 unitOps, units, delays>>

\* the outer loop is exhausted: summary and cleanup
Finish ==
  /\ pc = "loop"
  /\ asinIdx > Len(asinsToProcess)
  /\ pc' = "done"
  /\ UNCHANGED <<input, asinIdx, mpIdx, page, foundSelector, allSellers,
                 sellersToVisit, results, emitIdx, allResults, sellersSeen,
                 sink, failures, unitOps, units, delays>>

\* page.goto with a catch block that returns [] (the function ends there)
GotoReturnsEmpty(docs) ==
  /\ pc = "goto"
  /\ \/ /\ page' \in docs
        /\ unitOps' = Append(unitOps, Op("goto", "offer", TRUE))
        /\ pc' = "title"
        /\ UNCHANGED <<failures, allSellers>>
     \/ /\ failures < MaxFailures
        /\ page' \in docs \cup {page}
        /\ unitOps' = Append(unitOps, Op("goto", "offer", FALSE))
        /\ failures' = failures + 1
        /\ allSellers' = <<>>
        /\ pc' = "filter"
  /\ UNCHANGED <<input, asinIdx, mpIdx, foundSelector, sellersToVisit,
                 results, emitIdx, allResults, sellersSeen, sink, units, delays>>

\* try { await page.goto(offerUrl, ...) } catch (err) { log.warning(...) }
\* A rejected goto leaves the page on the old document or on whatever was
\* loaded when the timeout fired; the function goes on in both cases.
Goto(docs) ==
  /\ pc = "goto"
  /\ \/ /\ page' \in docs
        /\ unitOps' = Append(unitOps, Op("goto", "offer", TRUE))
        /\ UNCHANGED failures
     \/ /\ failures < MaxFailures
        /\ page' \in docs \cup {page}
        /\ unitOps' = Append(unitOps, Op("goto", "offer", FALSE))
        /\ failures' = failures + 1
  /\ pc' = "title"
  /\ UNCHANGED <<input, asinIdx, mpIdx, foundSelector, allSellers,
                 sellersToVisit, results, emitIdx, allResults, sellersSeen,
                 sink, units, delays>>

\* pageTitle.includes('Page Not Found') || ... || currentUrl.includes('/errors/')
IsNotFound(doc) ==
  \/ Includes(doc.title, TxtPageNotFound)
  \/ Includes(doc.title, Txt404)
  \/ Includes(doc.title, TxtSorry)
  \/ Includes(doc.url, TxtErrors)

\* the title read without the return of the not-found branch
ReadTitleNoReturn ==
  /\ pc = "title"
  /\ \/ /\ unitOps' = Append(unitOps, Op("title", "offer", TRUE))
        /\ pc' = "captcha"
        /\ UNCHANGED failures
     \/ /\ failures < MaxFailures
        /\ unitOps' = Append(unitOps, Op("title", "offer", FALSE))
        /\ failures' = failures + 1
        /\ pc' = "catch"
  /\ UNCHANGED <<input, asinIdx, mpIdx, page, foundSelector, allSellers,
                 sellersToVisit, results, emitIdx, allResults, sellersSeen,
                 sink, units, delays>>

\* const currentUrl = page.url(); const pageTitle = await page.title();
\* and the not-found test.  page.title() is awaited outside any try block:
\* its rejection leaves extractAllSellers and scrapeAsinOnMarketplace and
\* is caught in main.js.
ReadTitle ==
  /\ pc = "title"
  /\ \/ /\ unitOps' = Append(unitOps, Op("title", "offer", TRUE))
        /\ IF IsNotFound(page)
           THEN allSellers' = <<>> /\ pc' = "filter"
           ELSE pc' = "captcha" /\ UNCHANGED allSellers
        /\ UNCHANGED failures
     \/ /\ failures < MaxFailures
        /\ unitOps' = Append(unitOps, Op("title", "offer", FALSE))
        /\ failures' = failures + 1
        /\ pc' = "catch"
        /\ UNCHANGED allSellers
  /\ UNCHANGED <<input, asinIdx, mpIdx, page, foundSelector, sellersToVisit,
                 results, emitIdx, allResults, sellersSeen, sink, units, delays>>

\* const hasCaptcha = await page.$('form[action*="validateCaptcha"]') !== null
QueryCaptcha ==
  /\ pc = "captcha"
  /\ \/ /\ unitOps' = Append(unitOps, Op("query", "captcha", TRUE))
        /\ IF page.captcha
           THEN allSellers' = <<>> /\ pc' = "filter"
           ELSE pc' = "wait" /\ UNCHANGED allSellers
        /\ UNCHANGED failures
     \/ /\ failures < MaxFailures
        /\ unitOps' = Append(unitOps, Op("query", "captcha", FALSE))
        /\ failures' = failures + 1
        /\ pc' = "catch"
        /\ UNCHANGED allSellers
  /\ UNCHANGED <<input, asinIdx, mpIdx, page, foundSelector, sellersToVisit,
                 results, emitIdx, allResults, sellersSeen, sink, units, delays>>

\* the index in offerSelectors of the first selector the page has, or 0
FirstContainer(doc) ==
  IF \E i \in 1..Len(offerSelectors) : offerSelectors[i] \in doc.containers
  THEN CHOOSE i \in 1..Len(offerSelectors) :
         /\ offerSelectors[i] \in doc.containers
         /\ \A j \in 1..(i - 1) : offerSelectors[j] \notin doc.containers
  ELSE 0

\* the waitForSelector calls of the loop over offerSelectors: every selector
\* before the first one found times out
WaitOps(doc) ==
  LET f == FirstContainer(doc)
      n == IF f = 0 THEN Len(offerSelectors) ELSE f
  IN  [i \in 1..n |-> Op("waitForSelector", offerSelectors[i], i = f)]

\* the wait giving up with an empty result when no container appears
WaitForContainersOrGiveUp ==
  /\ pc = "wait"
  /\ LET f == FirstContainer(page)
     IN  /\ foundSelector' = IF f = 0 THEN "null" ELSE offerSelectors[f]
         /\ unitOps' = unitOps \o WaitOps(page)
         /\ IF f = 0
            THEN allSellers' = <<>> /\ pc' = "filter"
            ELSE pc' = "extract" /\ UNCHANGED allSellers
  /\ UNCHANGED <<input, asinIdx, mpIdx, page, sellersToVisit,
                 results, emitIdx, allResults, sellersSeen, sink, failures,
                 units, delays>>

\* for (const sel of offerSelectors) {...}  if (!foundSelector) { await delay(5000) }
WaitForContainers ==
  /\ pc = "wait"
  /\ LET f == FirstContainer(page)
     IN  /\ foundSelector' = IF f = 0 THEN "null" ELSE offerSelectors[f]
         /\ unitOps' = unitOps \o WaitOps(page) \o
                         (IF f = 0 THEN <<Op("delay", "fallback", TRUE)>> ELSE <<>>)
  /\ pc' = "extract"
  /\ UNCHANGED <<input, asinIdx, mpIdx, page, allSellers, sellersToVisit,
                 results, emitIdx, allResults, sellersSeen, sink, failures,
                 units, delays>>

\* extractAllSellers with a seen-set per strategy and no Map step
DiscoverPerStrategy(anchors) ==
  LET s0 == [found |-> <<>>, seenIds |-> {}]
  IN  ForEachCandidate(s0, SelectSeq(anchors, MatchesAag), "aag").found \o
      ForEachCandidate(s0, SelectSeq(anchors, MatchesSellerParam), "sellerParam").found \o
      ForEachSoldBy(s0, anchors).found

\* what extractAllSellers returns once the second page.evaluate has settled
Discover(anchors) == UniqueBySellerId(EvaluateStrategies(anchors))

\* const debugInfo = await page.evaluate(...).catch(() => ({}));
\* const sellers = await page.evaluate(...).catch(() => []);
\* const unique = [...]; return unique
Extract ==
  /\ pc = "extract"
  /\ \/ /\ allSellers' = Discover(page.anchors)
        /\ unitOps' = unitOps \o <<Op("evaluate", "debug", TRUE),
                                   Op("evaluate", "sellers", TRUE)>>
        /\ UNCHANGED failures
     \/ /\ failures < MaxFailures
        /\ allSellers' = <<>>
        /\ unitOps' = unitOps \o <<Op("evaluate", "debug", TRUE),
                                   Op("evaluate", "sellers", FALSE)>>
        /\ failures' = failures + 1
  /\ pc' = "filter"
  /\ UNCHANGED <<input, asinIdx, mpIdx, page, foundSelector, sellersToVisit,
                 results, emitIdx, allResults, sellersSeen, sink, units, delays>>

\* the filter applied whatever the flag says
FilterSellersIgnoringFlag(skipAmazonSellers, sellers) ==
  SelectSeq(sellers, LAMBDA s : ~isAmazonSeller(S(s.name)))

\* const sellersToVisit = skipAmazonSellers ? allSellers.filter(...) : allSellers
FilterSellers(skipAmazonSellers, sellers) ==
  IF skipAmazonSellers
  THEN SelectSeq(sellers, LAMBDA s : ~isAmazonSeller(S(s.name)))
  ELSE sellers

\* the empty case leaving the loop body with continue, past the delay
FilterContinue ==
  /\ pc = "filter"
  /\ LET toVisit == FilterSellers(input.skipAmazonSellers, allSellers)
     IN  /\ sellersToVisit' = toVisit
         /\ IF toVisit = <<>>
            THEN pc' = "loop" /\ mpIdx' = mpIdx + 1
            ELSE pc' = "visit" /\ UNCHANGED mpIdx
  /\ UNCHANGED <<input, asinIdx, page, foundSelector, allSellers,
                 results, emitIdx, allResults, sellersSeen, sink, failures,
                 unitOps, units, delays>>

\* the filter and  if (sellersToVisit.length === 0) return []
Filter ==
  /\ pc = "filter"
  /\ LET toVisit == FilterSellers(input.skipAmazonSellers, allSellers)
     IN  /\ sellersToVisit' = toVisit
         /\ pc' = IF toVisit = <<>> THEN "delay" ELSE "visit"
  /\ UNCHANGED <<input, asinIdx, mpIdx, page, foundSelector, allSellers,
                 results, emitIdx, allResults, sellersSeen, sink, failures,
                 unitOps, units, delays>>

ErrorInfo == [error |-> S(<<"e","r","r">>)]

\* extractSellerInfo without its try/catch: a rejected goto or evaluate
\* leaves scrapeAsinOnMarketplace
VisitSellerThrows(docs) ==
  /\ pc = "visit"
  /\ LET seller == sellersToVisit[Len(results) + 1]
         before == Append(unitOps, Op("delay", "seller", TRUE))
     IN  \/ \E d \in docs :
              /\ page' = d
              /\ results' = Append(results,
                    BuildRecord(asin, marketplace, seller, EvaluateProfile(d.profile)))
              /\ unitOps' = before \o <<Op("goto", seller.sellerId, TRUE),
                                        Op("delay", "settle", TRUE),
                                        Op("evaluate", "profile", TRUE)>>
              /\ pc' = IF Len(results') = Len(sellersToVisit) THEN "annotate" ELSE "visit"
              /\ UNCHANGED failures
         \/ /\ failures < MaxFailures
            /\ page' \in docs \cup {page}
            /\ unitOps' = before \o <<Op("goto", seller.sellerId, FALSE)>>
            /\ failures' = failures + 1
            /\ pc' = "catch"
            /\ UNCHANGED results
  /\ UNCHANGED <<input, asinIdx, mpIdx, foundSelector, allSellers,
                 sellersToVisit, emitIdx, allResults, sellersSeen, sink,
                 units, delays>>

\* One iteration of  for (const seller of sellersToVisit): the delay, the
\* whole of extractSellerInfo and results.push.
VisitSeller(docs) ==
  /\ pc = "visit"
  /\ LET seller == sellersToVisit[Len(results) + 1]
         before == Append(unitOps, Op("delay", "seller", TRUE))
     IN  \/ \E d \in docs :
              /\ page' = d
              /\ results' = Append(results,
                    BuildRecord(asin, marketplace, seller, EvaluateProfile(d.profile)))
              /\ unitOps' = before \o <<Op("goto", seller.sellerId, TRUE),
                                        Op("delay", "settle", TRUE),
                                        Op("evaluate", "profile", TRUE)>>
              /\ UNCHANGED failures
         \/ /\ failures < MaxFailures
            /\ page' \in docs \cup {page}
            /\ results' = Append(results, BuildRecord(asin, marketplace, seller, ErrorInfo))
            /\ unitOps' = before \o <<Op("goto", seller.sellerId, FALSE)>>
            /\ failures' = failures + 1
         \/ /\ failures < MaxFailures
            /\ page' \in docs
            /\ results' = Append(results, BuildRecord(asin, marketplace, seller, ErrorInfo))
            /\ unitOps' = before \o <<Op("goto", seller.sellerId, TRUE),
                                      Op("delay", "settle", TRUE),
                                      Op("evaluate", "profile", FALSE)>>
            /\ failures' = failures + 1
  /\ pc' = IF Len(results') = Len(sellersToVisit) THEN "annotate" ELSE "visit"
  /\ UNCHANGED <<input, asinIdx, mpIdx, foundSelector, allSellers,
                 sellersToVisit, emitIdx, allResults, sellersSeen, sink,
                 units, delays>>

\* sellersSeen.has / get / set
\* a Map whose has() never finds a key
SeenHasNever(seen, key) == FALSE

SeenHas(seen, key) == \E i \in 1..Len(seen) : seen[i].key = key

SeenGet(seen, key) == seen[CHOOSE i \in 1..Len(seen) : seen[i].key = key].value

SeenSet(seen, key, value) ==
  IF SeenHas(seen, key)
  THEN [i \in 1..Len(seen) |->
          IF seen[i].key = key THEN [key |-> key, value |-> value] ELSE seen[i]]
  ELSE Append(seen, [key |-> key, value |-> value])

\* Provenance with the duplicate branch reading the current marketplace
\* instead of the Map entry
ProvenanceCurrent(seen, seller, code) ==
  [firstSeenOnMarketplace |-> code, isDuplicate |-> SeenHas(seen, seller.sellerId)]

\* the provenance fields main.js adds to a record
Provenance(seen, seller, code) ==
  IF SeenHas(seen, seller.sellerId)
  THEN [firstSeenOnMarketplace |-> SeenGet(seen, seller.sellerId), isDuplicate |-> TRUE]
  ELSE [firstSeenOnMarketplace |-> code, isDuplicate |-> FALSE]

WithProvenance(seller, prov) ==
  [k \in DOMAIN seller \cup {"firstSeenOnMarketplace", "isDuplicate"} |->
     IF k = "firstSeenOnMarketplace" THEN prov.firstSeenOnMarketplace
     ELSE IF k = "isDuplicate" THEN prov.isDuplicate
     ELSE seller[k]]

\* the loop body skipping the record of a seller the Map already has
AnnotateSkipDuplicate ==
  /\ pc = "annotate"
  /\ LET seller == results[emitIdx]
         annotated == WithProvenance(seller,
                         Provenance(sellersSeen, seller, marketplace.code))
     IN  /\ sellersSeen' = IF SeenHas(sellersSeen, seller.sellerId)
                           THEN sellersSeen
                           ELSE SeenSet(sellersSeen, seller.sellerId, marketplace.code)
         /\ results' = [results EXCEPT ![emitIdx] = annotated]
         /\ allResults' = IF SeenHas(sellersSeen, seller.sellerId)
                          THEN allResults
                          ELSE Append(allResults, annotated)
  /\ pc' = "pushData"
  /\ UNCHANGED <<input, asinIdx, mpIdx, page, foundSelector, allSellers,
                 sellersToVisit, emitIdx, sink, failures, unitOps, units, delays>>

\* the body of  for (const seller of sellers)  up to allResults.push(seller)
Annotate ==
  /\ pc = "annotate"
  /\ LET seller == results[emitIdx]
         annotated == WithProvenance(seller,
                         Provenance(sellersSeen, seller, marketplace.code))
     IN  /\ sellersSeen' = IF SeenHas(sellersSeen, seller.sellerId)
                           THEN sellersSeen
                           ELSE SeenSet(sellersSeen, seller.sellerId, marketplace.code)
         /\ results' = [results EXCEPT ![emitIdx] = annotated]
         /\ allResults' = Append(allResults, annotated)
  /\ pc' = "pushData"
  /\ UNCHANGED <<input, asinIdx, mpIdx, page, foundSelector, allSellers,
                 sellersToVisit, emitIdx, sink, failures, unitOps, units, delays>>

\* await Actor.pushData(seller): its rejection ends the loop over the
\* records and is caught by the catch of the unit
PushData ==
  /\ pc = "pushData"
  /\ \/ /\ sink' = Append(sink, results[emitIdx])
        /\ unitOps' = Append(unitOps, Op("pushData", results[emitIdx].sellerId, TRUE))
        /\ IF emitIdx = Len(results)
           THEN pc' = "delay" /\ UNCHANGED emitIdx
           ELSE pc' = "annotate" /\ emitIdx' = emitIdx + 1
        /\ UNCHANGED failures
     \/ /\ failures < MaxFailures
        /\ unitOps' = Append(unitOps, Op("pushData", results[emitIdx].sellerId, FALSE))
        /\ failures' = failures + 1
        /\ pc' = "catch"
        /\ UNCHANGED <<sink, emitIdx>>
  /\ UNCHANGED <<input, asinIdx, mpIdx, page, foundSelector, allSellers,
                 sellersToVisit, results, allResults, sellersSeen, units, delays>>

\* the loop body without its try/catch: the error ends the run
CatchRethrow ==
  /\ pc = "catch"
  /\ pc' = "halted"
  /\ UNCHANGED <<input, asinIdx, mpIdx, page, foundSelector, allSellers,
                 sellersToVisit, results, emitIdx, allResults, sellersSeen,
                 sink, failures, unitOps, units, delays>>

\* catch (err) { log.error(...) }
Catch ==
  /\ pc = "catch"
  /\ pc' = "delay"
  /\ UNCHANGED <<input, asinIdx, mpIdx, page, foundSelector, allSellers,
                 sellersToVisit, results, emitIdx, allResults, sellersSeen,
                 sink, failures, unitOps, units, delays>>

\* await delay(delayBetweenRequests) at the end of the inner loop body; the
\* locals of the iteration go out of scope
Delay ==
  /\ pc = "delay"
  /\ delays' = delays + 1
  /\ mpIdx' = mpIdx + 1
  /\ pc' = "loop"
  /\ unitOps' = <<>>
  /\ foundSelector' = "null"
  /\ allSellers' = <<>>
  /\ sellersToVisit' = <<>>
  /\ results' = <<>>
  /\ emitIdx' = 1
  /\ UNCHANGED <<input, asinIdx, page, allResults, sellersSeen, sink,
                 failures, units>>

Next ==
  \/ BeginUnit
  \/ NextAsin
  \/ Finish
  \/ Goto(RunOfferDocs)
  \/ ReadTitle
  \/ QueryCaptcha
  \/ WaitForContainers
  \/ Extract
  \/ Filter
  \/ VisitSeller(RunProfileDocs)
  \/ Annotate
  \/ PushData
  \/ Catch
  \/ Delay

Spec == Init /\ [][Next]_vars

(***************************************************************************)
(* A single unit (one ASIN on one marketplace) over every offer page of up  *)
(* to MaxLinks anchors.                                                    *)
(***************************************************************************)
InitDiscovery ==
  /\ Init
  /\ input = [maxAsins |-> 0, marketplaces |-> <<MARKETPLACES[1].code>>,
              skipAmazonSellers |-> TRUE]

NextDiscovery ==
  \/ BeginUnit
  \/ Goto(DiscoveryDocs)
  \/ ReadTitle
  \/ QueryCaptcha
  \/ WaitForContainers
  \/ Extract
  \/ Filter
  \/ VisitSeller(RunProfileDocs)
  \/ Annotate
  \/ PushData
  \/ Catch
  \/ Delay

SpecDiscovery == InitDiscovery /\ [][NextDiscovery]_vars

(***************************************************************************)
(* A single unit over the offer pages of IdentityDocs, with and without    *)
(* skipAmazonSellers.                                                      *)
(***************************************************************************)
InitIdentity ==
  /\ Init
  /\ input.maxAsins = 0
  /\ input.marketplaces = <<MARKETPLACES[1].code>>

NextIdentity ==
  \/ BeginUnit
  \/ Goto(IdentityDocs)
  \/ ReadTitle
  \/ QueryCaptcha
  \/ WaitForContainers
  \/ Extract
  \/ Filter
  \/ VisitSeller(RunProfileDocs)
  \/ Annotate
  \/ PushData
  \/ Catch
  \/ Delay

SpecIdentity == InitIdentity /\ [][NextIdentity]_vars

(***************************************************************************)
(* A single unit with one seller over the profile pages of ProfileDocs.    *)
(***************************************************************************)
NextProfile ==
  \/ BeginUnit
  \/ Goto({DocOne})
  \/ ReadTitle
  \/ QueryCaptcha
  \/ WaitForContainers
  \/ Extract
  \/ Filter
  \/ VisitSeller(ProfileDocs)
  \/ Annotate
  \/ PushData
  \/ Catch
  \/ Delay

SpecProfile == InitDiscovery /\ [][NextProfile]_vars

(***************************************************************************)
(* Properties.                                                             *)
(***************************************************************************)
Last(q) == q[Len(q)]

\* the records of the result sequence that carry seller id
RecordsOf(id) == {i \in 1..Len(allResults) : allResults[i].sellerId = id}

\* C1: cross-marketplace provenance.  When two records of the result
\* sequence carry the same seller id and the earlier one is the first record
\* of that seller in the run, the earlier one (marketplace A) has
\* isDuplicate = false and firstSeenOnMarketplace = A, and the later one has
\* isDuplicate = true and firstSeenOnMarketplace = A.
C1_Provenance ==
  \A i, j \in 1..Len(allResults) :
    ( /\ i < j
      /\ allResults[i].sellerId = allResults[j].sellerId
      /\ \A k \in 1..(i - 1) : allResults[k].sellerId # allResults[i].sellerId )
    => /\ allResults[i].isDuplicate = FALSE
       /\ allResults[i].firstSeenOnMarketplace = allResults[i].marketplace
       /\ allResults[j].isDuplicate = TRUE
       /\ allResults[j].firstSeenOnMarketplace = allResults[i].marketplace

\* a seller emitted on the first and then on the second marketplace
C1_Witness ==
  \E i, j \in 1..Len(allResults) :
    /\ i < j
    /\ allResults[i].sellerId = allResults[j].sellerId
    /\ allResults[i].marketplace = MARKETPLACES[1].code
    /\ allResults[j].marketplace = MARKETPLACES[2].code
    /\ allResults[j].isDuplicate

TableIndex(code) == CHOOSE i \in 1..Len(MarketplaceTable) : MarketplaceTable[i].code = code

CallerIndex(code) ==
  CHOOSE i \in 1..Len(input.marketplaces) : input.marketplaces[i] = code

\* C2 as claimed: for each product the marketplaces are processed in the
\* order of the caller's marketplace-code list.
C2_CallerOrder ==
  \A i, j \in 1..Len(units) :
    (i < j /\ units[i].asin = units[j].asin /\ Len(input.marketplaces) > 0)
    => CallerIndex(units[i].marketplace) < CallerIndex(units[j].marketplace)

\* C2 as amended: for each product the marketplaces are processed in the
\* order of the MARKETPLACES table, restricted to the codes the caller
\* supplied (all of them for an empty list); the order in which the caller
\* wrote the codes has no effect.
C2_TableOrder ==
  /\ \A i, j \in 1..Len(units) :
       (i < j /\ units[i].asin = units[j].asin)
       => TableIndex(units[i].marketplace) < TableIndex(units[j].marketplace)
  /\ \A i \in 1..Len(units) :
       Len(input.marketplaces) > 0 => units[i].marketplace \in Range(input.marketplaces)

\* the caller wrote the codes against the table order and two units ran
C2_Witness ==
  /\ Len(input.marketplaces) = 2
  /\ TableIndex(input.marketplaces[1]) > TableIndex(input.marketplaces[2])
  /\ Len(units) >= 2

\* C3: the sequence extractAllSellers returns contains no sellerId twice.
C3_NoRepeatedSellerId ==
  \A i, j \in 1..Len(allSellers) :
    i # j => allSellers[i].sellerId # allSellers[j].sellerId

\* the same seller id is reachable on the page through two anchors
C3_Witness ==
  /\ pc = "filter"
  /\ allSellers # <<>>
  /\ \E i, j \in 1..Len(page.anchors) :
       /\ i # j
       /\ extractSellerId(page.anchors[i].href) = allSellers[1].sellerId
       /\ extractSellerId(page.anchors[j].href) = allSellers[1].sellerId
       /\ Trim(page.anchors[i].text) # <<>>
       /\ Trim(page.anchors[j].text) # <<>>

\* The candidates of a page in encounter order, duplicates included: the
\* anchors of strategy 1 in DOM order, then those of strategy 2, then those
\* of strategy 3, each with the text, id, href and tag it is found with.
Candidate(a, strategy) ==
  [name |-> Trim(a.text),
   sellerId |-> IF strategy = "soldByPath" THEN MatchSellerPath(a.href)
                ELSE extractSellerId(a.href),
   href |-> a.href, strategy |-> strategy]

SoldByTag(a) == IF extractSellerId(a.href) # NoId THEN "soldBy" ELSE "soldByPath"

Candidates(anchors) ==
  LET c1 == SelectSeq(anchors, MatchesAag)
      c2 == SelectSeq(anchors, MatchesSellerParam)
      c3 == SelectSeq(anchors, LAMBDA a : MatchesSoldBy(a) /\
                (extractSellerId(a.href) # NoId \/ a.href.route = "sp"))
      all == [i \in 1..Len(c1) |-> Candidate(c1[i], "aag")] \o
             [i \in 1..Len(c2) |-> Candidate(c2[i], "sellerParam")] \o
             [i \in 1..Len(c3) |-> Candidate(c3[i], SoldByTag(c3[i]))]
  IN  SelectSeq(all, LAMBDA c : c.name # <<>> /\ c.sellerId # NoId)

FirstOccurrences(cands) ==
  SelectSeq([i \in 1..Len(cands) |->
               [c |-> cands[i],
                first |-> \A j \in 1..(i - 1) : cands[j].sellerId # cands[i].sellerId]],
            LAMBDA e : e.first)

SellersEvaluated ==
  /\ pc = "filter"
  /\ unitOps # <<>>
  /\ Last(unitOps) = Op("evaluate", "sellers", TRUE)

NavFailed == unitOps # <<>> /\ unitOps[1] = Op("goto", "offer", FALSE)

TitleRead == Len(unitOps) >= 2 /\ unitOps[2] = Op("title", "offer", TRUE)

CaptchaQueried == Len(unitOps) >= 3 /\ unitOps[3] = Op("query", "captcha", TRUE)

\* C5 as claimed: extractAllSellers never raises an error to its caller (the
\* catch of main.js is entered only from Actor.pushData), and what it returns
\* is empty on navigation failure, on a not-found page and on a challenge
\* page.
C5_NeverThrows ==
  /\ pc = "catch" => Last(unitOps).op = "pushData"
  /\ (pc = "filter" /\ (NavFailed \/ IsNotFound(page) \/ page.captcha))
       => allSellers = <<>>

C7_NegativePageEndsUnit ==
  /\ (TitleRead /\ IsNotFound(page)) =>
       /\ Len(unitOps) = 2
       /\ allSellers = <<>> /\ sellersToVisit = <<>> /\ results = <<>>
       /\ pc \in {"filter", "delay"}
  /\ (CaptchaQueried /\ page.captcha) =>
       /\ Len(unitOps) = 3
       /\ allSellers = <<>> /\ sellersToVisit = <<>> /\ results = <<>>
       /\ pc \in {"filter", "delay"}

\* a not-found page that carries a seller link has ended its unit
C7_Witness ==
  /\ pc = "delay"
  /\ TitleRead
  /\ IsNotFound(page)
  /\ Candidates(page.anchors) # <<>>

\* the records of the result sequence that belong to the current unit
UnitRecords ==
  {i \in 1..Len(allResults) :
     allResults[i].asin = asin /\ allResults[i].marketplace = marketplace.code}

ProfileVisits == {i \in 1..Len(unitOps) : unitOps[i].op = "goto" /\ unitOps[i].arg # "offer"}

\* C8: a unit whose discovery returned nothing emits no record and visits no
\* profile, and the inter-marketplace delay is taken exactly once after
\* every unit, whatever the unit produced, before the next one begins.
C8_DelayAfterEveryUnit ==
  /\ delays = IF pc \in {"loop", "done"} THEN Len(units) ELSE Len(units) - 1
  /\ (pc = "delay" /\ allSellers = <<>>) =>
       /\ results = <<>>
       /\ UnitRecords = {}
       /\ ProfileVisits = {}

\* the second unit has begun after a first one that found nothing
C8_Witness ==
  /\ pc = "goto"
  /\ Len(units) = 2
  /\ delays = 1
  /\ failures = 0
  /\ allResults = <<>>

ProfileFields ==
  {"businessName", "businessType", "phoneNumber", "customerServicePhone",
   "email", "vatNumber", "tradeRegisterNumber", "businessAddress",
   "customerServiceAddress", "rating", "positivePercent", "ratingCount"}

\* the profile visit of seller id was rejected at goto or at evaluate
VisitFailed(id) ==
  \E i \in 1..Len(unitOps) :
    /\ unitOps[i].op = "goto"
    /\ unitOps[i].arg = id
    /\ \/ ~unitOps[i].ok
       \/ i + 2 <= Len(unitOps) /\ unitOps[i + 2] = Op("evaluate", "profile", FALSE)

\* C9: no error leaves extractSellerInfo; when its navigation or evaluation
\* fails, the record of that seller is still built, with every profile field
\* null, hasDetailedInfo = false and the discovered text as
\* sellerDisplayName, and the loop goes on to the next seller.
C9_ProfileFailureTolerated ==
  /\ pc = "catch" => Last(unitOps).op \in {"title", "query", "pushData"}
  /\ Cardinality(ProfileVisits) = Len(results)
  /\ pc \in {"annotate", "pushData"} => Len(results) = Len(sellersToVisit)
  /\ \A n \in 1..Len(results) :
       /\ results[n].sellerId = sellersToVisit[n].sellerId
       /\ VisitFailed(results[n].sellerId) =>
            /\ \A f \in ProfileFields : results[n][f] = Null
            /\ results[n].hasDetailedInfo = B(FALSE)
            /\ results[n].sellerDisplayName = S(sellersToVisit[n].name)

\* a failed visit was followed by the visit of the next seller
C9_Witness ==
  \E n \in 1..Len(results) :
    /\ VisitFailed(results[n].sellerId)
    /\ n < Len(results)

\* the k-th unit of the input matrix, row by row
UnitAt(k) ==
  LET m == Len(marketplacesToScrape)
  IN  [asin |-> asinsToProcess[((k - 1) \div m) + 1],
       marketplace |-> marketplacesToScrape[((k - 1) % m) + 1].code]

\* C10: the run attempts every (product, marketplace) pair of the matrix
\* exactly once, in order, and visits the profile of every surviving seller
\* exactly once per unit; no error of a unit stops the run before the end of
\* the matrix, and no navigation is made twice in a unit.
C10_EveryUnitOnce ==
  /\ \A k \in 1..Len(units) : units[k] = UnitAt(k)
  /\ \A i, j \in 1..Len(units) : i # j => units[i] # units[j]
  /\ pc = "done" => Len(units) = Len(asinsToProcess) * Len(marketplacesToScrape)
  /\ pc # "done" =>
       \/ pc = "extract"
       \/ pc = "visit" /\ Len(results) < Len(sellersToVisit)
       \/ ENABLED (BeginUnit \/ NextAsin \/ Finish \/ Goto(RunOfferDocs)
                   \/ ReadTitle \/ QueryCaptcha \/ WaitForContainers
                   \/ Filter \/ Annotate \/ PushData \/ Catch \/ Delay)
  /\ \A i, j \in 1..Len(unitOps) :
       (i # j /\ unitOps[i].op = "goto" /\ unitOps[j].op = "goto")
       => unitOps[i].arg # unitOps[j].arg
  /\ pc \in {"annotate", "pushData", "catch", "delay"} =>
       \A n \in 1..Len(sellersToVisit) :
         \E i \in ProfileVisits : unitOps[i].arg = sellersToVisit[n].sellerId

\* the run ended after a unit whose pushData was rejected and a later unit
\* that emitted a record
C10_Witness ==
  /\ pc = "done"
  /\ failures >= 1
  /\ Len(units) >= 2
  /\ Len(sink) < Len(allResults)
  /\ sink # <<>>
  /\ Last(sink) = Last(allResults)

\* the unit is past the first-party filter of scrapeAsinOnMarketplace
Filtered ==
  \/ pc \in {"visit", "annotate", "pushData"}
  \/ /\ pc \in {"catch", "delay"}
     /\ ~(Last(unitOps).op \in {"title", "query"} /\ ~Last(unitOps).ok)

\* C11: isAmazonSeller is true for every entry of AMAZON_SELLER_NAMES in any
\* letter case and between any leading and trailing whitespace, so with
\* skipAmazonSellers no seller of such a name survives the filter; it is
\* false for null, undefined and the empty string.
C11_ListedNamesAreFirstParty ==
  /\ ~isAmazonSeller(Null)
  /\ ~isAmazonSeller(Undefined)
  /\ ~isAmazonSeller(S(<<>>))
  /\ \A i \in 1..Len(page.anchors) :
       page.anchors[i].text \in ListedVariants
       => isAmazonSeller(S(page.anchors[i].text))
  /\ (Filtered /\ input.skipAmazonSellers) =>
       \A n \in 1..Len(sellersToVisit) : sellersToVisit[n].name \notin ListedVariants

\* a listed name in capitals between whitespace was discovered and removed
C11_Witness ==
  /\ pc = "delay"
  /\ Filtered
  /\ input.skipAmazonSellers
  /\ Len(page.anchors) = 1
  /\ page.anchors[1].text \in ListedVariants
  /\ Trim(page.anchors[1].text) # page.anchors[1].text
  /\ ToLowerCase(page.anchors[1].text) # page.anchors[1].text
  /\ Len(allSellers) = 1
  /\ sellersToVisit = <<>>

\* strings a and b have a non-empty substring in common
SharesSubstring(a, b) == \E i \in 1..Len(a), j \in 1..Len(b) : a[i] = b[j]

\* the lower-cased, trimmed name has nothing in common with any entry
Unrelated(text) ==
  \A k \in 1..Len(AMAZON_SELLER_NAMES) :
    ~SharesSubstring(Trim(ToLowerCase(text)), AMAZON_SELLER_NAMES[k])

\* C12 as claimed: for every name string whose normalized form shares no
\* non-empty substring with any entry of AMAZON_SELLER_NAMES, isAmazonSeller
\* is false.
C12_UnrelatedNamesAreThirdParty ==
  \A i \in 1..Len(page.anchors) :
    Unrelated(page.anchors[i].text) => ~isAmazonSeller(S(page.anchors[i].text))

\* the profile page the browser shows has been evaluated in this unit
ProfileEvaluated ==
  \E i \in 1..Len(unitOps) : unitOps[i] = Op("evaluate", "profile", TRUE)

\* the detail block of the page shown was found and parsed
DetailParsed == ProfileEvaluated /\ page.profile.heading /\ page.profile.container

ExampleAddress == <<"1","2"," ","H","i","g","h"," ","S","t","r","e","e","t",","," ","L","o","n","d","o","n",","," ","E","C","1"," ","1","A","A",","," ","U","n","i","t","e","d"," ","K","i","n","g","d","o","m">>
ExampleVat == <<"G","B","1","2","3","4","5","6","7","8","9">>
ValueVat == <<"G","B","1">>
ValuePhone == <<"1",":","2">>
ValueName == <<"A","c","m","e">>

\* the first line after i that has a colon or the terminator phrase, or the
\* position after the last line
StopIndex(lines, i) ==
  LET stops == {j \in (i + 1)..Len(lines) :
                  Includes(lines[j], <<":">>) \/ Includes(lines[j], TxtThisSeller)}
  IN  IF stops = {} THEN Len(lines) + 1
      ELSE CHOOSE j \in stops : \A k \in stops : j <= k

\* the address the lines give for an address label line: the lines between
\* the last label line and its stopping line, joined by ", "
AddressAfter(lines, label) ==
  LET i == CHOOSE i \in 1..Len(lines) :
             lines[i] = label /\ \A k \in (i + 1)..Len(lines) : lines[k] # label
  IN  S(Join(SubSeq(lines, i + 1, StopIndex(lines, i) - 1), <<",", " ">>))

Occurs(lines, line) == \E i \in 1..Len(lines) : lines[i] = line

\* C13 as claimed: the detail-block lines "Business Address", "12 High
\* Street", "London, EC1 1AA", "United Kingdom", "VAT Number: GB123456789"
\* yield businessAddress = "12 High Street, London, EC1 1AA, United Kingdom"
\* and vatNumber = "GB123456789".
C13_ExampleAsWritten ==
  (DetailParsed /\ page.profile.detail = ExampleLines) =>
    LET info == EvaluateProfile(page.profile)
    IN  /\ Get(info, "businessAddress") = S(ExampleAddress)
        /\ Get(info, "vatNumber") = S(ExampleVat)

\* C13 as amended: with the label line written "Business Address:" the
\* example yields that address and VAT number; in general an address field
\* is set only by a label line that has a colon and nothing after it, to the
\* following lines joined by ", " up to the first line with a colon or the
\* terminator phrase, and that stopping line is still parsed as label:value.
C13_AddressContinuation ==
  DetailParsed =>
    LET lines == page.profile.detail
        info == EvaluateProfile(page.profile)
    IN  /\ lines = ExampleLinesColon =>
             /\ Get(info, "businessAddress") = S(ExampleAddress)
             /\ Get(info, "vatNumber") = S(ExampleVat)
             /\ results[1].businessAddress = S(ExampleAddress)
             /\ results[1].vatNumber = S(ExampleVat)
        /\ Get(info, "businessAddress") =
             IF Occurs(lines, LineBusinessAddress)
             THEN AddressAfter(lines, LineBusinessAddress) ELSE Undefined
        /\ Get(info, "customerServiceAddress") =
             IF Occurs(lines, LineCustomerServicesAddress)
             THEN AddressAfter(lines, LineCustomerServicesAddress) ELSE Undefined
        /\ results[1].businessAddress = OrElse(Get(info, "businessAddress"), Null)
        /\ results[1].customerServiceAddress = OrElse(Get(info, "customerServiceAddress"), Null)
        /\ \A i \in 1..Len(lines) :
             (lines[i] \in {LineBusinessAddress, LineCustomerServicesAddress}
              /\ StopIndex(lines, i) <= Len(lines)) =>
               (lines[StopIndex(lines, i)] = LinePhone
                => Get(info, "phoneNumber") = S(ValuePhone))

\* the example with the colon after the label has been parsed
C13_Witness ==
  /\ DetailParsed
  /\ pc = "annotate"
  /\ page.profile.detail = ExampleLinesColon

\* the lines of the body text of the page shown
BodyLines == page.profile.outside \o page.profile.detail

\* the line is the first of the body text that has the label "Customer
\* Service Phone" in any letter case
FirstCsLine(line) ==
  \E i \in 1..Len(BodyLines) :
    /\ BodyLines[i] = line
    /\ \A j \in 1..(i - 1) :
         ~Includes(ToLowerCase(BodyLines[j]), TxtCustomerServicePhone)

ValueCsPhone == <<"+","4","4"," ","2","0">>
ValueCsPhoneLoose == <<"5","5","5">>

DetailFields ==
  {"businessName", "businessType", "vatNumber", "tradeRegisterNumber",
   "email", "businessAddress", "customerServiceAddress"}

NoCsLabel ==
  \A i \in 1..Len(BodyLines) :
    ~Includes(ToLowerCase(BodyLines[i]), TxtCustomerServicePhone)

\* C15: when the detail block was parsed and the page text has a "Customer
\* Service Phone" line, customerServicePhone is the value of that line, and
\* phoneNumber is the value of the block's "Phone number" line if it has
\* one and the value of the "Customer Service Phone" line otherwise; without
\* such a line customerServicePhone is not set and phoneNumber comes from
\* the block alone.
C15_DetailPhoneTakesPrecedence ==
  DetailParsed =>
    LET info == EvaluateProfile(page.profile)
        blockPhone == IF Occurs(page.profile.detail, LinePhone)
                      THEN S(ValuePhone) ELSE Undefined
    IN  /\ FirstCsLine(LineCsPhone) =>
             /\ Get(info, "customerServicePhone") = S(ValueCsPhone)
             /\ Get(info, "phoneNumber") =
                  IF blockPhone # Undefined THEN blockPhone ELSE S(ValueCsPhone)
             /\ results[1].customerServicePhone = S(ValueCsPhone)
             /\ results[1].phoneNumber =
                  IF blockPhone # Undefined THEN blockPhone ELSE S(ValueCsPhone)
        /\ NoCsLabel =>
             /\ Get(info, "customerServicePhone") = Undefined
             /\ Get(info, "phoneNumber") = blockPhone
             /\ results[1].customerServicePhone = Null
             /\ results[1].phoneNumber = OrElse(blockPhone, Null)

\* a block with a "Phone number" line was parsed on a page that also has
\* the "Customer Service Phone" line
C15_Witness ==
  /\ DetailParsed
  /\ pc = "annotate"
  /\ Occurs(page.profile.detail, LinePhone)
  /\ page.profile.outside = <<LineCsPhone>>
  /\ results[1].phoneNumber = S(ValuePhone)
  /\ results[1].customerServicePhone = S(ValueCsPhone)

\* what a line of the pools says: the field it names and its value, or <<>>
\* for a line without a colon, with another label or with no value
Entry(line) ==
  CASE line = LineVat -> <<"vatNumber", ValueVat>>
    [] line = LinePhone -> <<"phoneNumber", ValuePhone>>
    [] line = LineName -> <<"businessName", ValueName>>
    [] line = LineNameTight -> <<"businessName", <<"B","o","l","t">>>>
    [] line = LineType -> <<"businessType", <<"L","t","d">>>>
    [] line = LineTradeRegister -> <<"tradeRegisterNumber", <<"H","R","B"," ","1">>>>
    [] line = LineEmail -> <<"email", <<"a","@","b",".","c">>>>
    [] OTHER -> <<>>

\* the value of the last line that names the field
Expected(lines, field) ==
  LET is == {i \in 1..Len(lines) : Entry(lines[i]) # <<>> /\ Entry(lines[i])[1] = field}
  IN  IF is = {} THEN Undefined
      ELSE S(Entry(lines[CHOOSE i \in is : \A k \in is : k <= i])[2])

LabelledFields ==
  {"businessName", "businessType", "tradeRegisterNumber", "vatNumber",
   "phoneNumber", "email"}

\* the block of the page shown was parsed, has pool lines only, and the page
\* has no "Customer Service Phone" text
PoolParsed ==
  /\ DetailParsed
  /\ NoCsLabel
  /\ \A i \in 1..Len(page.profile.detail) :
       page.profile.detail[i] \in DetailPool \cup LabelPool

\* C19 as claimed: lines are split at the first colon; each of the six
\* fields holds the value of the last line whose trimmed label equals its
\* label case-insensitively, and a line with any other label or without a
\* colon changes no field.
C19_OnlySixLabelsSetFields ==
  PoolParsed =>
    LET info == EvaluateProfile(page.profile)
    IN  /\ \A f \in LabelledFields : Get(info, f) = Expected(page.profile.detail, f)
        /\ Get(info, "businessAddress") = Undefined
        /\ Get(info, "customerServiceAddress") = Undefined

\* C19 as amended: lines are split at the first colon; each of the six
\* fields holds the trimmed, non-empty value of the last line whose trimmed
\* label equals its label case-insensitively; a line without a colon, with
\* an empty value or with any other label changes none of the six fields,
\* and the only other lines that change a field are the address labels with
\* an empty value, which set businessAddress or customerServiceAddress.
C19_FirstColonSplit ==
  PoolParsed =>
    LET info == EvaluateProfile(page.profile)
        lines == page.profile.detail
    IN  /\ \A f \in LabelledFields :
             /\ Get(info, f) = Expected(lines, f)
             /\ results[1][f] = OrElse(Expected(lines, f), Null)
        /\ (Get(info, "businessAddress") # Undefined) <=> Occurs(lines, LineBusinessAddress)
        /\ (Get(info, "customerServiceAddress") # Undefined)
             <=> Occurs(lines, LineCustomerServicesAddress)

\* a block whose phone line has a second colon and whose e-mail label is in
\* capitals was parsed
C19_Witness ==
  /\ PoolParsed
  /\ pc = "annotate"
  /\ page.profile.detail = <<LinePhone, LineEmail>>
  /\ results[1].phoneNumber = S(ValuePhone)
  /\ results[1].email # Null

\* C16 as claimed: the sink holds exactly the in-memory result sequence, in
\* the same order, at every point outside the call of Actor.pushData itself;
\* in particular when a unit begins all earlier records are in the sink.
C16_SinkEqualsResults ==
  pc # "pushData" => sink = allResults

\* the positions of allSellers the filter keeps
Kept ==
  {i \in 1..Len(allSellers) :
     ~(input.skipAmazonSellers /\ isAmazonSeller(S(allSellers[i].name)))}

\* C17: with skipAmazonSellers exactly the discovered candidates whose
\* display text isAmazonSeller accepts are removed, in place, before any
\* profile visit, and none is removed without the flag; when nothing
\* remains the unit visits no profile page and takes no per-seller delay.
C17_FilterRemovesExactlyFirstParty ==
  /\ Filtered =>
       /\ Len(sellersToVisit) = Cardinality(Kept)
       /\ \A n \in 1..Len(sellersToVisit) :
            sellersToVisit[n] =
              allSellers[CHOOSE i \in Kept : Cardinality({k \in Kept : k <= i}) = n]
       /\ ~input.skipAmazonSellers => sellersToVisit = allSellers
       /\ sellersToVisit = <<>> =>
            /\ ProfileVisits = {}
            /\ \A i \in 1..Len(unitOps) : unitOps[i] # Op("delay", "seller", TRUE)
            /\ results = <<>>
  /\ ~Filtered => ProfileVisits = {}

\* of a third-party and a first-party seller discovered, the third-party
\* one alone is about to be visited
C17_Witness ==
  /\ pc = "visit"
  /\ input.skipAmazonSellers
  /\ Len(allSellers) = 2
  /\ Len(sellersToVisit) = 1
  /\ ~isAmazonSeller(S(sellersToVisit[1].name))
  /\ isAmazonSeller(S(allSellers[2].name))

WaitIndices == {i \in 1..Len(unitOps) : unitOps[i].op = "waitForSelector"}

\* C20: the container wait tries the selectors in order and stops at the
\* first one found; if none is found it tries them all, takes the fallback
\* delay, and the extraction runs all the same, so that the sellers of the
\* page are returned whether or not a container was recognised.
C20_ExtractionWithoutContainer ==
  /\ pc = "extract" =>
       /\ foundSelector = "null" <=>
            \A k \in 1..Len(offerSelectors) : offerSelectors[k] \notin page.containers
       /\ Cardinality(WaitIndices) >= 1
       /\ unitOps[Len(unitOps)] =
            IF foundSelector = "null" THEN Op("delay", "fallback", TRUE)
            ELSE Op("waitForSelector", foundSelector, TRUE)
  /\ WaitIndices # {} =>
       /\ pc \notin {"title", "captcha", "wait"}
       /\ IF foundSelector = "null"
          THEN /\ Cardinality(WaitIndices) = Len(offerSelectors)
               /\ \A i \in WaitIndices : ~unitOps[i].ok
               /\ \E i \in 1..Len(unitOps) : unitOps[i] = Op("delay", "fallback", TRUE)
          ELSE /\ \A i \in WaitIndices :
                    unitOps[i].ok <=> unitOps[i].arg = foundSelector
               /\ \A i \in WaitIndices : \A k \in WaitIndices :
                    unitOps[i].ok => k <= i
               /\ \A i \in 1..Len(unitOps) : unitOps[i] # Op("delay", "fallback", TRUE)
               /\ foundSelector \in
                    {offerSelectors[k] : k \in 1..Cardinality(WaitIndices)}
  /\ (pc = "filter" /\ Last(unitOps) = Op("evaluate", "sellers", TRUE)) =>
       allSellers = Discover(page.anchors)
  /\ (pc = "filter" /\ ~IsNotFound(page) /\ ~page.captcha) =>
       Last(unitOps).op = "evaluate"

\* sellers were extracted from a page on which no container was found
C20_Witness ==
  /\ pc = "filter"
  /\ foundSelector = "null"
  /\ page.containers = {}
  /\ Len(allSellers) >= 2
\* the integer a rating capture stands for
StatValue(capture) ==
  IF capture = Null THEN Null
  ELSE IF capture = S(<<"0">>) THEN N(0)
  ELSE IF capture = S(<<"9","8">>) THEN N(98)
  ELSE N(1204)

\* C21: a rating statistic the profile extractor parsed as the integer 0
\* (positivePercent = 0 or ratingCount = 0) appears as 0 in the emitted
\* record, and a statistic of the record is null only when the pattern found
\* no match on the page: the record carries the parsed integer of every
\* matched statistic.
C21_ParsedStatisticIsEmitted ==
  ProfileEvaluated =>
    /\ results[1].positivePercent = StatValue(page.profile.percentMatch)
    /\ results[1].ratingCount = StatValue(page.profile.countMatch)
\* the records before record i that carry its seller id
EarlierRecords(i) ==
  {k \in 1..(i - 1) : allResults[k].sellerId = allResults[i].sellerId}

\* the earliest record with the seller id of record i
EarliestOf(i) ==
  LET earlier == EarlierRecords(i)
  IN  IF earlier = {} THEN i
      ELSE CHOOSE k \in earlier : \A m \in earlier : k <= m

\* C22: over the whole run, at every step, a record of the result sequence
\* has isDuplicate = false exactly when no earlier record has its seller id;
\* its firstSeenOnMarketplace is the marketplace of the earliest record with
\* its seller id; the number of isDuplicate = false records is the size of
\* the seen-sellers map; and the map holds exactly one entry per seller id of
\* the result sequence, whose value is the marketplace of the earliest record
\* with that id, so an entry once inserted is neither changed nor removed
\* while records are appended.
C22_SeenMapMatchesResults ==
  /\ \A i \in 1..Len(allResults) :
       /\ (allResults[i].isDuplicate = FALSE) <=> (EarlierRecords(i) = {})
       /\ allResults[i].firstSeenOnMarketplace = allResults[EarliestOf(i)].marketplace
       /\ SeenHas(sellersSeen, allResults[i].sellerId)
  /\ Cardinality({i \in 1..Len(allResults) : allResults[i].isDuplicate = FALSE})
       = Len(sellersSeen)
  /\ \A n \in 1..Len(sellersSeen) :
       /\ \A m \in 1..(n - 1) : sellersSeen[m].key # sellersSeen[n].key
       /\ \E i \in 1..Len(allResults) :
            /\ allResults[i].sellerId = sellersSeen[n].key
            /\ EarlierRecords(i) = {}
            /\ allResults[i].marketplace = sellersSeen[n].value

\* the run has ended with two sellers emitted on each of two marketplaces:
\* four records, two of them duplicates, and two entries in the map
C22_Witness ==
  /\ pc = "done"
  /\ Len(allResults) = 4
  /\ Len(sellersSeen) = 2
  /\ ~allResults[1].isDuplicate /\ ~allResults[2].isDuplicate
  /\ allResults[3].isDuplicate /\ allResults[4].isDuplicate
  /\ allResults[3].firstSeenOnMarketplace # allResults[3].marketplace
\* scrapeAsinOnMarketplace has returned to the loop of main.js
Returned == Filtered /\ pc # "visit"

\* how many of the returned records the loop of main.js has annotated
Annotated ==
  IF results = <<>> THEN 0
  ELSE IF pc = "annotate" THEN emitIdx - 1
  ELSE emitIdx

\* C23: in every unit scrapeAsinOnMarketplace returns exactly one record per
\* seller that survived the first-party filter, in discovery order, each with
\* that seller's id and display text and the product id and marketplace code
\* of the unit, whether or not the profile visit failed and whether or not
\* the seller was seen on an earlier marketplace; every record the loop of
\* main.js has taken up is at the end of the result sequence, in the same
\* order, duplicates included (annotated with isDuplicate = true, not
\* left out).
C23_OneRecordPerSurvivor ==
  Returned =>
    LET kept == Kept
        done == Annotated
        base == Len(allResults) - done
    IN  /\ Len(results) = Cardinality(kept)
        /\ \A n \in 1..Len(results) :
             LET survivor ==
                   allSellers[CHOOSE i \in kept : Cardinality({k \in kept : k <= i}) = n]
             IN  /\ results[n].sellerId = survivor.sellerId
                 /\ results[n].sellerName = survivor.name
                 /\ results[n].asin = asin
                 /\ results[n].marketplace = marketplace.code
        /\ base >= 0
        /\ \A n \in 1..done :
             /\ allResults[base + n] = results[n]
             /\ results[n].isDuplicate =
                  (\E k \in 1..(base + n - 1) :
                     allResults[k].sellerId = results[n].sellerId)

\* the second marketplace returned two records, both of sellers already
\* seen on the first, the profile visit of the second seller having failed;
\* both are in the result sequence, marked as duplicates
C23_Witness ==
  /\ pc = "delay"
  /\ Len(units) = 2
  /\ Len(results) = 2
  /\ VisitFailed(results[2].sellerId)
  /\ ~VisitFailed(results[1].sellerId)
  /\ Len(allResults) = 4
  /\ allResults[3] = results[1] /\ allResults[4] = results[2]
  /\ results[1].isDuplicate /\ results[2].isDuplicate

====
